---- MODULE Spec2Model ----
(***************************************************************************)
(* Model of scripts/tpch/generate_dists_embedded.py: a generator that      *)
(* embeds a text file into a C++ translation unit as a raw string literal. *)
(* Text is a sequence of one-character strings; a file is a sequence of    *)
(* bytes, an ASCII byte being written as its character and the byte 0xFF   *)
(* as "xFF".                                                               *)
(***************************************************************************)
EXTENDS Integers, Sequences, FiniteSets, TLC

(* ---------------------------- bounds ----------------------------------- *)

\* The input file is a concatenation of at most MaxFrags fragments.
MaxFrags == 4

(* ------------------------ program constants ---------------------------- *)

TPCH_DISTS ==
  <<"T", "P", "C", "H", "_", "D", "I", "S", "T", "S">>

HeaderOpen ==
  <<"/", "*", " ", "A", "u", "t", "o", "-", "g", "e", "n", "e", "r", "a",
    "t", "e", "d", " ", "f", "r", "o", "m", " ">>

HeaderClose ==
  <<".", " ", "*", "/", "\n">>

IncludeLine ==
  <<"#", "i", "n", "c", "l", "u", "d", "e", " ", "<", "c", "s", "t", "d",
    "d", "e", "f", ">", "\n", "\n">>

ExternOpen ==
  <<"e", "x", "t", "e", "r", "n", " ", "\"", "C", "\"", " ", "{", "\n">>

ArrayDecl ==
  <<"e", "x", "t", "e", "r", "n", " ", "c", "o", "n", "s", "t", " ", "c",
    "h", "a", "r", " ", "t", "p", "c", "h", "_", "d", "i", "s", "t", "s",
    "_", "d", "a", "t", "a", "[", "]", " ", "=", " ", "R", "\"">>

LiteralOpen ==
  <<"(", "\n">>

LiteralClose ==
  <<"\"", ";", "\n">>

SizeLine ==
  <<"e", "x", "t", "e", "r", "n", " ", "c", "o", "n", "s", "t", " ", "s",
    "i", "z", "e", "_", "t", " ", "t", "p", "c", "h", "_", "d", "i", "s",
    "t", "s", "_", "s", "i", "z", "e", " ", "=", " ", "s", "i", "z", "e",
    "o", "f", "(", "t", "p", "c", "h", "_", "d", "i", "s", "t", "s", "_",
    "d", "a", "t", "a", ")", " ", "-", " ", "1", ";", "\n">>

ExternClose ==
  <<"}", " ", " ", "/", "/", " ", "e", "x", "t", "e", "r", "n", " ", "\"",
    "C", "\"", "\n">>

(* ----------------------------- inputs ---------------------------------- *)

\* The value of --input as the caller typed it.
InputPath ==
  <<"i", "n", "/", "d", ".", "d", "s", "s">>

\* What the output path holds before the run, when it exists.
OldUnit ==
  <<"/", "*", " ", "o", "l", "d", " ", "*", "/", "\n">>

\* The pieces input files are built from: the characters the delimiter
\* check, the line-ending normalisation and the literal's closer react to,
\* and one byte that is not valid UTF-8.
Fragments ==
  { <<")">>, TPCH_DISTS, <<"_", "1">>, <<"\r">>, <<"\n">>, <<"\"">>,
    <<"xFF">> }

RECURSIVE Flatten(_)
Flatten(ss) ==
  IF ss = <<>> THEN <<>> ELSE Head(ss) \o Flatten(Tail(ss))

Contents(n) ==
  { Flatten(fs) : fs \in UNION { [1..k -> Fragments] : k \in 0..n } }

\* The input files of the runs that vary the label and the filesystem.
IOContents ==
  { <<>>, <<"1", "\n">>, <<")">> \o TPCH_DISTS, <<"xFF", "\r">> }

\* args.label after parse_args: None when --label is absent.
None == [supplied |-> FALSE, value |-> <<>>]

LabelOptions ==
  { None,
    [supplied |-> TRUE, value |-> <<>>],
    [supplied |-> TRUE, value |-> <<"L", "b">>] }

(* ------------------------- string primitives --------------------------- *)

\* Python: t in s
Contains(s, t) ==
  \E i \in 0..(Len(s) - Len(t)) : SubSeq(s, i + 1, i + Len(t)) = t

\* Python: s.endswith(t)
EndsWith(s, t) ==
  /\ Len(s) >= Len(t)
  /\ SubSeq(s, Len(s) - Len(t) + 1, Len(s)) = t

StartsWith(s, t) ==
  /\ Len(s) >= Len(t)
  /\ SubSeq(s, 1, Len(t)) = t

\* Python: s.replace(old, new), leftmost non-overlapping occurrences.
RECURSIVE Replace(_, _, _)
Replace(s, old, new) ==
  IF s = <<>> THEN <<>>
  ELSE IF StartsWith(s, old)
       THEN new \o Replace(SubSeq(s, Len(old) + 1, Len(s)), old, new)
       ELSE <<Head(s)>> \o Replace(Tail(s), old, new)

DigitChar == <<"0", "1", "2", "3", "4", "5", "6", "7", "8", "9">>

\* Python: str(n) for n >= 0, as the f-string formats index.
RECURSIVE IntToStr(_)
IntToStr(n) ==
  IF n < 10 THEN <<DigitChar[n + 1]>>
  ELSE IntToStr(n \div 10) \o <<DigitChar[(n % 10) + 1]>>

(* ------------------------- decoding, encoding -------------------------- *)

\* bytes.decode("utf-8") succeeds iff no byte is invalid; the only
\* non-ASCII byte of the inputs is 0xFF, which no UTF-8 sequence contains.
Utf8Valid(bytes) ==
  \A i \in 1..Len(bytes) : bytes[i] # "xFF"

\* Text-mode read with newline=None: universal newlines translation.
UniversalNewlines(text) ==
  Replace(Replace(text, <<"\r", "\n">>, <<"\n">>), <<"\r">>, <<"\n">>)

\* Path.read_text(encoding="utf-8") on valid input: ASCII bytes decode to
\* themselves, then line endings are translated.
ReadText(bytes) ==
  UniversalNewlines(bytes)

\* bytes.decode("latin-1"): every byte b becomes the character U+00b.
DecodeLatin1(bytes) ==
  [i \in 1..Len(bytes) |-> IF bytes[i] = "xFF" THEN "U+00FF" ELSE bytes[i]]

\* str.encode("utf-8"): U+00FF becomes the two bytes C3 BF, an ASCII
\* character its own byte. Evaluated from one U+00FF to the next.
RECURSIVE EncodeUtf8(_)
EncodeUtf8(text) ==
  IF \A i \in 1..Len(text) : text[i] # "U+00FF" THEN text
  ELSE LET first == CHOOSE i \in 1..Len(text) :
                      /\ text[i] = "U+00FF"
                      /\ \A j \in 1..(i - 1) : text[j] # "U+00FF"
       IN  SubSeq(text, 1, first - 1) \o <<"xC3", "xBF">>
           \o EncodeUtf8(SubSeq(text, first + 1, Len(text)))

(* --------------------------- normalisation ----------------------------- *)

\* Variant: only "\r\n" is converted, a lone "\r" is left in place.
ConvertCrLfOnly(text) ==
  Replace(text, <<"\r", "\n">>, <<"\n">>)

\* data.replace("\r\n", "\n").replace("\r", "\n")
ConvertLineEndings(text) ==
  Replace(Replace(text, <<"\r", "\n">>, <<"\n">>), <<"\r">>, <<"\n">>)

\* if not data.endswith("\n"): data += "\n"
EnsureTrailingNewline(text) ==
  IF ~EndsWith(text, <<"\n">>) THEN text \o <<"\n">> ELSE text

NormalizeText(text) ==
  EnsureTrailingNewline(ConvertLineEndings(text))

(* ------------------------- choose_delimiter ---------------------------- *)

\* Variant: the collision test looks for the opening parenthesis.
RejectedWrongParen(text, cand) ==
  Contains(text, <<"(">> \o cand)

\* f"){delimiter}" not in data, negated: the candidate collides.
Rejected(text, cand) ==
  Contains(text, <<")">> \o cand)

\* Variant: the suffix is appended without the underscore.
CandidateNoSeparator(b, i) ==
  b \o IntToStr(i)

\* Variant: the suffix does not follow index.
CandidateFixedIndex(b, i) ==
  b \o <<"_">> \o IntToStr(1)

\* f"{base}_{index}"
Candidate(b, i) ==
  b \o <<"_">> \o IntToStr(i)

(* ------------------------------ render --------------------------------- *)

\* label = args.label if args.label else str(args.input)
ChooseLabel(lab, inputArg) ==
  IF lab.supplied /\ lab.value # <<>> THEN lab.value ELSE inputArg

\* Variant: double quotes of the content are escaped with a backslash.
RenderEscaped(lab, delim, text) ==
  HeaderOpen \o lab \o HeaderClose
  \o IncludeLine
  \o ExternOpen
  \o ArrayDecl \o delim \o LiteralOpen
  \o Replace(text, <<"\"">>, <<"\\", "\"">>)
  \o <<")">> \o delim \o LiteralClose
  \o SizeLine
  \o ExternClose

\* The f-string template of the generated unit.
Render(lab, delim, text) ==
  HeaderOpen \o lab \o HeaderClose
  \o IncludeLine
  \o ExternOpen
  \o ArrayDecl \o delim \o LiteralOpen
  \o text
  \o <<")">> \o delim \o LiteralClose
  \o SizeLine
  \o ExternClose

(* ------------------- the unit as the compiler reads it ----------------- *)

\* Position of the first occurrence of t in s at or after from; 0 if none.
FirstIndex(s, t, from) ==
  IF \E i \in from..(Len(s) - Len(t) + 1) : SubSeq(s, i, i + Len(t) - 1) = t
  THEN CHOOSE i \in from..(Len(s) - Len(t) + 1) :
         /\ SubSeq(s, i, i + Len(t) - 1) = t
         /\ \A j \in from..(i - 1) : SubSeq(s, j, j + Len(t) - 1) # t
  ELSE 0

\* R"delim(  as emitted by the template.
OpeningMarker(delim) ==
  <<"R", "\"">> \o delim \o <<"(">>

\* )delim"  as emitted by the template.
ClosingMarker(delim) ==
  <<")">> \o delim \o <<"\"">>

\* First position after the opening marker.
BodyStart(unit, delim) ==
  FirstIndex(unit, OpeningMarker(delim), 1) + Len(OpeningMarker(delim))

\* Position of the first closing marker after the opening marker: where a
\* C++ compiler ends the raw string literal.
BodyEnd(unit, delim) ==
  FirstIndex(unit, ClosingMarker(delim), BodyStart(unit, delim))

\* The bytes of the raw string literal.
LiteralSpan(unit, delim) ==
  SubSeq(unit, BodyStart(unit, delim), BodyEnd(unit, delim) - 1)

\* sizeof(tpch_dists_data) - 1: the array holds the literal's bytes and one
\* terminating NUL.
SizeSymbol(unit, delim) ==
  (Len(LiteralSpan(unit, delim)) + 1) - 1

(* ------------------------------ state ---------------------------------- *)

VARIABLES
  pc,         \* position of main
  args,       \* parsed command line: [label]
  fs,         \* filesystem: input file, output parent directory, output file
  fs0,        \* the filesystem when the run started
  data,       \* local data of main / parameter data of choose_delimiter
  delimiter,  \* local delimiter
  index,      \* local index of choose_delimiter
  rejected,   \* number of candidates choose_delimiter has rejected
  label,      \* local label
  output,     \* local output
  exitCode    \* process exit status, -1 while running

vars ==
  <<pc, args, fs, fs0, data, delimiter, index, rejected, label, output,
    exitCode>>

File(bytes) == [exists |-> TRUE, bytes |-> bytes]

Absent == [exists |-> FALSE, bytes |-> <<>>]

Readable(bytes) == [kind |-> "file", bytes |-> bytes]

Missing == [kind |-> "missing", bytes |-> <<>>]

Unreadable == [kind |-> "unreadable", bytes |-> <<>>]

Locals ==
  /\ data = <<>>
  /\ delimiter = <<>>
  /\ index = 0
  /\ rejected = 0
  /\ label = <<>>
  /\ output = <<>>
  /\ exitCode = -1

\* After parse_args: either any input file with the default label over an
\* existing output, or a small input with any label and any filesystem.
Init ==
  /\ pc = "read"
  /\ \/ /\ args = [label |-> None]
        /\ \E bytes \in Contents(MaxFrags) :
             fs = [input |-> Readable(bytes), dir |-> TRUE,
                   out |-> File(OldUnit)]
     \/ /\ args \in [label : LabelOptions]
        /\ \E inp \in {Missing, Unreadable}
                      \cup { Readable(b) : b \in IOContents },
              d \in BOOLEAN,
              o \in {Absent, File(OldUnit)} :
             /\ o.exists => d
             /\ fs = [input |-> inp, dir |-> d, out |-> o]
  /\ fs0 = fs
  /\ Locals

(* ------------------------------ main ----------------------------------- *)

\* Variant: the parent directory is created before the input is read.
ReadFailAfterMkdir ==
  /\ pc = "read"
  /\ fs.input.kind # "file"
  /\ fs' = [fs EXCEPT !.dir = TRUE]
  /\ pc' = "failed"
  /\ exitCode' = 1
  /\ UNCHANGED <<args, fs0, data, delimiter, index, rejected, label, output>>

\* input_path.read_text(encoding="utf-8") raising OSError: the exception
\* leaves main and the interpreter exits with status 1.
ReadFail ==
  /\ pc = "read"
  /\ fs.input.kind # "file"
  /\ pc' = "failed"
  /\ exitCode' = 1
  /\ UNCHANGED <<args, fs, fs0, data, delimiter, index, rejected, label,
                 output>>

\* data = input_path.read_text(encoding="utf-8")
ReadTextOk ==
  /\ pc = "read"
  /\ fs.input.kind = "file"
  /\ Utf8Valid(fs.input.bytes)
  /\ data' = ReadText(fs.input.bytes)
  /\ pc' = "normalize"
  /\ UNCHANGED <<args, fs, fs0, delimiter, index, rejected, label, output,
                 exitCode>>

\* read_text raising UnicodeDecodeError
ReadTextDecodeError ==
  /\ pc = "read"
  /\ fs.input.kind = "file"
  /\ ~Utf8Valid(fs.input.bytes)
  /\ pc' = "fallback"
  /\ UNCHANGED <<args, fs, fs0, data, delimiter, index, rejected, label,
                 output, exitCode>>

\* data = input_path.read_bytes().decode("latin-1")
ReadBytesLatin1 ==
  /\ pc = "fallback"
  /\ data' = DecodeLatin1(fs.input.bytes)
  /\ pc' = "normalize"
  /\ UNCHANGED <<args, fs, fs0, delimiter, index, rejected, label, output,
                 exitCode>>

\* Line-ending conversion and the trailing newline.
Normalize ==
  /\ pc = "normalize"
  /\ data' = NormalizeText(data)
  /\ pc' = "choose"
  /\ UNCHANGED <<args, fs, fs0, delimiter, index, rejected, label, output,
                 exitCode>>

\* Variant: base is returned without the collision test.
ChooseBaseUnchecked ==
  /\ pc = "choose"
  /\ delimiter' = TPCH_DISTS
  /\ pc' = "render"
  /\ UNCHANGED <<index, rejected>>
  /\ UNCHANGED <<args, fs, fs0, data, label, output, exitCode>>

\* choose_delimiter up to the loop: try base, return it or set index = 1.
ChooseBase ==
  /\ pc = "choose"
  /\ IF ~Rejected(data, TPCH_DISTS)
     THEN /\ delimiter' = TPCH_DISTS
          /\ pc' = "render"
          /\ UNCHANGED <<index, rejected>>
     ELSE /\ delimiter' = TPCH_DISTS
          /\ index' = 1
          /\ rejected' = rejected + 1
          /\ pc' = "loop"
  /\ UNCHANGED <<args, fs, fs0, data, label, output, exitCode>>

\* One iteration of the while True loop of choose_delimiter.
ChooseLoop ==
  /\ pc = "loop"
  /\ delimiter' = Candidate(TPCH_DISTS, index)
  /\ IF ~Rejected(data, Candidate(TPCH_DISTS, index))
     THEN /\ pc' = "render"
          /\ UNCHANGED <<index, rejected>>
     ELSE /\ index' = index + 1
          /\ rejected' = rejected + 1
          /\ pc' = "loop"
  /\ UNCHANGED <<args, fs, fs0, data, label, output, exitCode>>

\* label = ...; output = (...)
RenderUnit ==
  /\ pc = "render"
  /\ label' = ChooseLabel(args.label, InputPath)
  /\ output' = Render(ChooseLabel(args.label, InputPath), delimiter, data)
  /\ pc' = "mkdir"
  /\ UNCHANGED <<args, fs, fs0, data, delimiter, index, rejected, exitCode>>

\* output_path.parent.mkdir(parents=True, exist_ok=True)
MkdirOk ==
  /\ pc = "mkdir"
  /\ fs' = [fs EXCEPT !.dir = TRUE]
  /\ pc' = "open"
  /\ UNCHANGED <<args, fs0, data, delimiter, index, rejected, label, output,
                 exitCode>>

\* mkdir raising OSError: the directory chain cannot be created.
MkdirFail ==
  /\ pc = "mkdir"
  /\ ~fs.dir
  /\ pc' = "failed"
  /\ exitCode' = 1
  /\ UNCHANGED <<args, fs, fs0, data, delimiter, index, rejected, label,
                 output>>

\* Variant: the file is opened for appending and keeps what it held.
OpenAppend ==
  /\ pc = "open"
  /\ fs' = [fs EXCEPT !.out = File(fs.out.bytes)]
  /\ pc' = "write"
  /\ UNCHANGED <<args, fs0, data, delimiter, index, rejected, label, output,
                 exitCode>>

\* write_text, first half: open(mode="w") creates or truncates the file.
OpenOk ==
  /\ pc = "open"
  /\ fs' = [fs EXCEPT !.out = File(<<>>)]
  /\ pc' = "write"
  /\ UNCHANGED <<args, fs0, data, delimiter, index, rejected, label, output,
                 exitCode>>

\* open raising OSError: the file is left as it was.
OpenFail ==
  /\ pc = "open"
  /\ pc' = "failed"
  /\ exitCode' = 1
  /\ UNCHANGED <<args, fs, fs0, data, delimiter, index, rejected, label,
                 output>>

\* write_text, second half: the encoded text is written and the file
\* closed; return 0.
WriteOk ==
  /\ pc = "write"
  /\ fs' = [fs EXCEPT !.out = File(fs.out.bytes \o EncodeUtf8(output))]
  /\ pc' = "done"
  /\ exitCode' = 0
  /\ UNCHANGED <<args, fs0, data, delimiter, index, rejected, label, output>>

\* The write or the flush raising OSError (disk full) after n bytes.
WriteFail ==
  /\ pc = "write"
  /\ LET encoded == EncodeUtf8(output)
     IN  \E n \in {0, Len(encoded) \div 2, Len(encoded) - 1} :
           fs' = [fs EXCEPT !.out =
                    File(fs.out.bytes \o SubSeq(encoded, 1, n))]
  /\ pc' = "failed"
  /\ exitCode' = 1
  /\ UNCHANGED <<args, fs0, data, delimiter, index, rejected, label, output>>

Next ==
  \/ ReadFail
  \/ ReadTextOk
  \/ ReadTextDecodeError
  \/ ReadBytesLatin1
  \/ Normalize
  \/ ChooseBase
  \/ ChooseLoop
  \/ RenderUnit
  \/ MkdirOk
  \/ MkdirFail
  \/ OpenOk
  \/ OpenFail
  \/ WriteOk
  \/ WriteFail

Spec == Init /\ [][Next]_vars

(* --------------- choose_delimiter on arbitrary content ----------------- *)

\* choose_delimiter(data, "TPCH_DISTS") called on any content, empty and
\* unnormalised content included.
InitChoose ==
  /\ pc = "choose"
  /\ args = [label |-> None]
  /\ fs = [input |-> Missing, dir |-> TRUE, out |-> Absent]
  /\ fs0 = fs
  /\ data \in Contents(MaxFrags)
  /\ delimiter = <<>>
  /\ index = 0
  /\ rejected = 0
  /\ label = <<>>
  /\ output = <<>>
  /\ exitCode = -1

NextChoose ==
  \/ ChooseBase
  \/ ChooseLoop

SpecChoose == InitChoose /\ [][NextChoose]_vars

(* ============================ properties =============================== *)

\* main has normalised data.
Normalized ==
  /\ fs.input.kind = "file"
  /\ pc \notin {"read", "fallback", "normalize"}

\* main has rendered the unit.
Rendered ==
  output # <<>>

\* The bytes of the rendered unit, as write_text encodes them.
Unit ==
  EncodeUtf8(output)

IsPrefix(s, t) ==
  /\ Len(s) <= Len(t)
  /\ SubSeq(t, 1, Len(s)) = s

\* base + "_" + k, spelled out.
Suffixed(k) ==
  TPCH_DISTS \o <<"_">> \o IntToStr(k)

\* C1: in every run, the delimiter choose_delimiter returned, which is the
\* one the unit is framed with, is such that ")" followed by it does not
\* occur in the normalised content.
C1_DelimiterAbsentFromContent ==
  (pc = "render" \/ Rendered) =>
    /\ ~Contains(data, <<")">> \o delimiter)
    /\ Rendered =>
         /\ Contains(output, ArrayDecl \o delimiter \o LiteralOpen)
         /\ Contains(output, <<")">> \o delimiter \o LiteralClose)

C1_Witness ==
  /\ pc = "done"
  /\ Contains(data, <<")">> \o TPCH_DISTS)
  /\ delimiter = Suffixed(1)

\* Number of "\n" characters data ends with.
RECURSIVE TrailingNewlines(_)
TrailingNewlines(text) ==
  IF EndsWith(text, <<"\n">>)
  THEN 1 + TrailingNewlines(SubSeq(text, 1, Len(text) - 1))
  ELSE 0

\* Number of line terminators (\r\n, \r or \n) the input file ends with.
RECURSIVE TrailingTerminators(_)
TrailingTerminators(bytes) ==
  IF EndsWith(bytes, <<"\r", "\n">>)
  THEN 1 + TrailingTerminators(SubSeq(bytes, 1, Len(bytes) - 2))
  ELSE IF EndsWith(bytes, <<"\r">>) \/ EndsWith(bytes, <<"\n">>)
       THEN 1 + TrailingTerminators(SubSeq(bytes, 1, Len(bytes) - 1))
       ELSE 0

\* C2 as stated: the normalised content contains no carriage return and
\* ends with exactly one newline.
C2_ExactlyOneTrailingNewline ==
  Normalized =>
    /\ \A i \in 1..Len(data) : data[i] # "\r"
    /\ EndsWith(data, <<"\n">>)
    /\ ~EndsWith(data, <<"\n", "\n">>)

\* C2 amended: the normalised content contains no carriage return and ends
\* with a newline; it ends with as many newlines as the input ends with
\* line terminators, and with one when the input ends with none.
C2_NoCrAndTrailingNewline ==
  Normalized =>
    /\ \A i \in 1..Len(data) : data[i] # "\r"
    /\ EndsWith(data, <<"\n">>)
    /\ TrailingNewlines(data) =
         (IF TrailingTerminators(fs.input.bytes) = 0 THEN 1
          ELSE TrailingTerminators(fs.input.bytes))

C2_Witness ==
  /\ Normalized
  /\ EndsWith(fs.input.bytes, <<"\r", "\r", "\n">>)
  /\ TrailingNewlines(data) = 2

\* C3 as stated: the value of the size symbol of the written unit equals
\* the length in bytes of the normalised content.
C3_SizeEqualsContentLength ==
  pc = "done" =>
    SizeSymbol(fs.out.bytes, delimiter) = Len(EncodeUtf8(data))

\* C4: the bytes between the opening and the closing marker of the written
\* unit are the newline the template puts after the opening marker followed
\* by exactly the bytes of the normalised content.
C4_RoundTrip ==
  pc = "done" =>
    /\ BodyStart(fs.out.bytes, delimiter) > Len(OpeningMarker(delimiter))
    /\ BodyEnd(fs.out.bytes, delimiter) > 0
    /\ LiteralSpan(fs.out.bytes, delimiter) = <<"\n">> \o EncodeUtf8(data)

C4_Witness ==
  /\ pc = "done"
  /\ Contains(data, <<"\"">>)
  /\ Contains(data, <<"U+00FF">>)
  /\ Contains(data, <<")">>)

\* C5: choose_delimiter returns base when ")" + base is absent from the
\* content, and otherwise base_k for the smallest k >= 1 whose ")" + base_k
\* is absent; while it loops, every candidate below index has been tried
\* and rejected.
C5_SmallestFreeSuffix ==
  /\ pc = "render" =>
       IF ~Contains(data, <<")">> \o TPCH_DISTS)
       THEN delimiter = TPCH_DISTS
       ELSE \E k \in 1..(Len(data) + 1) :
              /\ delimiter = Suffixed(k)
              /\ ~Contains(data, <<")">> \o Suffixed(k))
              /\ \A j \in 1..(k - 1) : Contains(data, <<")">> \o Suffixed(j))
  /\ pc = "loop" =>
       /\ Contains(data, <<")">> \o TPCH_DISTS)
       /\ \A j \in 1..(index - 1) : Contains(data, <<")">> \o Suffixed(j))

C5_Witness ==
  /\ pc = "render"
  /\ delimiter = Suffixed(2)

\* C6: when the input path is missing or unreadable the run never gets past
\* the read, ends with a nonzero exit status, and the filesystem stays as
\* it was: no output file, no parent directory.
C6_InputErrorLeavesFilesystem ==
  fs.input.kind # "file" =>
    /\ fs = fs0
    /\ pc \in {"read", "failed"}
    /\ pc = "failed" => exitCode # 0 /\ exitCode # -1

C6_Witness ==
  /\ pc = "failed"
  /\ fs.input.kind = "missing"
  /\ ~fs.dir
  /\ ~fs.out.exists

\* C7 as stated: the unit starts with the header comment naming the label
\* option's string whenever the caller supplied one, whatever the string,
\* and the input path only when the option was not supplied.
C7_LabelVerbatim ==
  Rendered =>
    StartsWith(output,
               HeaderOpen
               \o (IF args.label.supplied THEN args.label.value
                   ELSE InputPath)
               \o HeaderClose)

\* C8 as stated: the output path always holds either what it held before
\* the run or the complete rendered unit.
C8_AtomicOverwrite ==
  \/ fs.out = fs0.out
  \/ Rendered /\ fs.out = File(Unit)

\* C8 amended: the output path holds what it held before the run until the
\* file is opened, an empty file once it is opened, then a prefix of the
\* rendered unit, and the complete unit when the run exits with status 0.
C8_PrefixOverwrite ==
  /\ \/ fs.out = fs0.out
     \/ Rendered /\ fs.out.exists /\ IsPrefix(fs.out.bytes, Unit)
  /\ pc \in {"read", "fallback", "normalize", "choose", "loop", "render",
             "mkdir", "open"} => fs.out = fs0.out
  /\ pc = "write" => fs.out = File(<<>>)
  /\ pc = "done" => fs.out = File(Unit) /\ exitCode = 0

C8_Witness ==
  /\ pc = "failed"
  /\ fs0.out = File(OldUnit)
  /\ fs.out.exists
  /\ fs.out.bytes # <<>>
  /\ fs.out.bytes # Unit
  /\ IsPrefix(fs.out.bytes, Unit)

\* Positions of data at which an occurrence of ")" + cand ends.
EndPositions(cand) ==
  { i \in 1..Len(data) : EndsWith(SubSeq(data, 1, i), <<")">> \o cand) }

\* The n-th candidate choose_delimiter tries, counting from 0.
Tried(n) ==
  IF n = 0 THEN TPCH_DISTS ELSE Suffixed(n)

\* C9: choose_delimiter never rejects more candidates than the content has
\* characters: every rejected candidate occurs in the content and no two of
\* them end at the same position. The loop therefore ends.
C9_RejectionsBoundedByLength ==
  /\ rejected <= Len(data)
  /\ \A m \in 0..(rejected - 1) :
       /\ EndPositions(Tried(m)) # {}
       /\ \A n \in 0..(m - 1) :
            EndPositions(Tried(m)) \cap EndPositions(Tried(n)) = {}

C9_Witness ==
  /\ pc = "loop"
  /\ rejected = 2
  /\ index = 2

\* Position of the ")" of the closing marker the template emits.
TemplateCloser ==
  Len(Unit) - Len(ExternClose) - Len(SizeLine) - Len(LiteralClose)
  - Len(delimiter)

\* C10: in the rendered unit no closing marker starts between the opening
\* marker and the closing marker of the template, so the literal ends at
\* the template's closer and the size line stays outside it.
C10_LiteralEndsAtTemplateCloser ==
  Rendered =>
    LET unit == Unit
        closer == TemplateCloser
        marker == ClosingMarker(delimiter)
        start == BodyStart(unit, delimiter)
    IN  /\ start > Len(OpeningMarker(delimiter))
        /\ SubSeq(unit, closer, closer + Len(delimiter) + 1) = marker
        /\ \A i \in start..(closer - 1) :
             SubSeq(unit, i, i + Len(delimiter) + 1) # marker
        /\ SubSeq(unit, closer + Len(delimiter) + 1, Len(unit))
             = LiteralClose \o SizeLine \o ExternClose

C10_Witness ==
  /\ pc = "mkdir"
  /\ EndsWith(data, <<")">> \o TPCH_DISTS \o <<"\"", "\n">>)
  /\ delimiter = Suffixed(1)

====
